---- MODULE Spec2Model ----
(***************************************************************************)
(* EarlyAllocator<PAGE_SIZE> of arceos/modules/bump_allocator/src/lib.rs:   *)
(* a double-ended bump arena [start, end) with a byte cursor b_pos growing  *)
(* upward, a page cursor p_pos growing downward and a count of outstanding  *)
(* byte allocations.  usize arithmetic keeps its width: plain +, -, * and   *)
(* << either panic (overflow checks on, the debug profile) or wrap (checks  *)
(* off, the release profile); checked_add / checked_sub report None.        *)
(***************************************************************************)
EXTENDS Integers, Naturals, Sequences, FiniteSets, TLC

\* width of usize in the model (a 16-bit target) and the page size parameter
USIZE_BITS == 16
PAGE_SIZE == 4096

\* the model caps the number of successful alloc calls made on one arena
\* (between two init calls)
MaxAllocs == 2

\* the model that records the memory handed out caps the number of
\* alloc_pages calls recorded on one arena
MaxRuns == 2

\* 2^USIZE_BITS, usize::MAX and isize::MAX
Mod == 65536
USIZE_MAX == Mod - 1
ISIZE_MAX == (Mod \div 2) - 1

RECURSIVE Pow2(_)
Pow2(n) == IF n = 0 THEN 1 ELSE 2 * Pow2(n - 1)

\* inputs of the calls
StartSet == {0, 57344}
InitSizeSet == {6144, 8192}
AllocSizes == {0, 16, 4096, 8192}
AllocAligns == {8, 8192}
NumPagesSet == {1, 16}
AlignPow2Set == {0, 12, 16}
DeallocPosSet == {0, 4096}
QueryNames == {"total_bytes", "used_bytes", "available_bytes",
               "total_pages", "used_pages", "available_pages"}

\* core::alloc::Layout: align is a power of two and size, rounded up to
\* align, does not exceed isize::MAX
IsPow2(a) == a \in {1, 2, 4, 8, 16, 32, 64, 128, 256, 512, 1024, 2048, 4096,
                    8192, 16384, 32768}
ValidLayout(size, align) == IsPow2(align) /\ size + (align - 1) <= ISIZE_MAX

\* ---- usize operations ----
RECURSIVE BitAnd(_, _, _)
BitAnd(a, b, n) ==
    IF n = 0 THEN 0
    ELSE (a % 2) * (b % 2) + 2 * BitAnd(a \div 2, b \div 2, n - 1)

And(a, b) == BitAnd(a, b, USIZE_BITS)
Not(a) == USIZE_MAX - a
WrapAdd_nosize(a, b) == a % Mod
WrapAdd(a, b) == (a + b) % Mod
WrapSub(a, b) == (a + Mod - b) % Mod
WrapMul(a, b) == (a * b) % Mod
\* `1 << k` with overflow checks off: the shift amount is masked to the width
Shl1(k) == Pow2(k % USIZE_BITS)

\* start .. count: the fields of EarlyAllocator.
\* overflow_checks: the build profile (overflow checks and debug assertions
\*   on, or off); halted: a panic has stopped the program; lastOp: the last
\*   call and its result.
\* History of the calls since init: inited (an init has completed),
\*   overflowed (an unchecked +, * or << left the range of usize), zeroOnly
\*   (every alloc since count was last 0 had size 0), phase / nAlloc /
\*   nDealloc / bAfter (allocs first, then deallocs; how many of each; the
\*   b_pos the allocs left), scn (position in a fixed call sequence).
\* Memory handed out to the caller since init (recorded by SpecLive only):
\*   live (the byte allocations returned by alloc and not yet passed to
\*   dealloc), runs (the page runs returned by alloc_pages).
VARIABLES start, end, b_pos, p_pos, count,
          overflow_checks, halted, lastOp,
          inited, overflowed, zeroOnly, phase, nAlloc, nDealloc, bAfter, scn,
          live, runs

fields == <<start, end, b_pos, p_pos, count>>
ghost == <<inited, overflowed, zeroOnly, phase, nAlloc, nDealloc, bAfter, scn>>
handed == <<live, runs>>
vars == <<start, end, b_pos, p_pos, count, overflow_checks, halted, lastOp,
          inited, overflowed, zeroOnly, phase, nAlloc, nDealloc, bAfter, scn,
          live, runs>>

\* the last call, how it ended and the value it returned
Op(op, res, val) == [op |-> op, res |-> res, val |-> val]

\* ---- queries (pure) ----
total_bytes == WrapSub(end, start)
used_bytes == WrapSub(b_pos, start)
available_bytes == IF p_pos >= b_pos THEN p_pos - b_pos ELSE 0
total_pages_below_p_pos == WrapSub(p_pos, start) \div PAGE_SIZE
total_pages == WrapSub(end, start) \div PAGE_SIZE
used_pages == WrapSub(end, p_pos) \div PAGE_SIZE
available_pages == available_bytes \div PAGE_SIZE

\* the subtraction of a query underflows
QueryUnderflows(q) ==
    CASE q = "total_bytes" -> end < start
      [] q = "used_bytes" -> b_pos < start
      [] q = "available_bytes" -> FALSE
      [] q = "total_pages" -> end < start
      [] q = "used_pages" -> end < p_pos
      [] q = "available_pages" -> FALSE

\* EarlyAllocator::align_up: (addr + align - 1) & !(align - 1), evaluated
\* left to right; ovf tells whether a step left the range of usize
align_up(addr, align) ==
    LET t1 == addr + align
        t1w == t1 % Mod
        t2w == WrapSub(t1w, 1)
    IN [val |-> And(t2w, Not(align - 1)),
        ovf |-> (t1 > USIZE_MAX) \/ (t1w < 1)]

\* usize::checked_add and usize::checked_sub: none stands for None
checked_add_nosize(a, b) == [none |-> a + b > USIZE_MAX, val |-> a]
checked_add(a, b) == [none |-> a + b > USIZE_MAX, val |-> (a + b) % Mod]
checked_sub(a, b) == [none |-> a < b, val |-> WrapSub(a, b)]

\* alloc: `if new_b_pos > self.p_pos`
byte_collides_end(new_b_pos) == new_b_pos > end
byte_collides_ge(new_b_pos) == new_b_pos >= p_pos
byte_collides(new_b_pos) == new_b_pos > p_pos

\* alloc_pages: `if new_p_pos < self.b_pos`
page_collides(new_p_pos) == new_p_pos < b_pos

\* alloc: b_pos after a request refused with NoMemory (nothing is written
\* before the comparison with p_pos)
refused_b_pos_aligned(aligned) == aligned
refused_b_pos(aligned) == b_pos

\* dealloc: `assert!(self.count > 0)`, checked in every build profile
assert_count_debug(c) == c > 0 \/ ~overflow_checks
assert_count(c) == c > 0

\* dealloc: b_pos once count has been decremented to c
dealloc_b_pos_keep(c) == b_pos
dealloc_b_pos_always(c) == start
dealloc_b_pos(c) == IF c = 0 THEN start ELSE b_pos

\* ---- EarlyAllocator::new ----
Init ==
    /\ start = 0 /\ end = 0 /\ b_pos = 0 /\ p_pos = 0 /\ count = 0
    /\ overflow_checks \in BOOLEAN
    /\ halted = FALSE
    /\ lastOp = Op("new", "Unit", 0)
    /\ inited = FALSE /\ overflowed = FALSE /\ zeroOnly = TRUE
    /\ phase = "allocs" /\ nAlloc = 0 /\ nDealloc = 0 /\ bAfter = 0
    /\ scn = 0
    /\ live = {} /\ runs = {}

\* ---- BaseAllocator::init ----
\* `self.start = start` is done before `start + size` can panic
init(s, size) ==
    /\ ~halted
    /\ start' = s
    /\ IF s + size > USIZE_MAX /\ overflow_checks
       THEN /\ halted' = TRUE
            /\ lastOp' = Op("init", "Panic", 0)
            /\ UNCHANGED <<end, b_pos, p_pos, count>>
            /\ overflowed' = TRUE
            /\ phase' = "broken"
            /\ UNCHANGED <<inited, zeroOnly, nAlloc, nDealloc, bAfter>>
            /\ scn' = 0
       ELSE /\ end' = WrapAdd(s, size)
            /\ b_pos' = s
            /\ p_pos' = WrapAdd(s, size)
            /\ count' = 0
            /\ halted' = FALSE
            /\ lastOp' = Op("init", "Unit", 0)
            /\ inited' = TRUE
            /\ overflowed' = (s + size > USIZE_MAX)
            /\ zeroOnly' = TRUE
            /\ phase' = "allocs" /\ nAlloc' = 0 /\ nDealloc' = 0 /\ bAfter' = s
            /\ scn' = IF s = 0 /\ size = 8192 THEN 1 ELSE 0
    /\ UNCHANGED overflow_checks

\* ---- BaseAllocator::add_memory ----
add_memory(s, size) ==
    /\ ~halted
    /\ lastOp' = Op("add_memory", "Ok", 0)
    /\ scn' = 0
    /\ UNCHANGED <<fields, overflow_checks, halted>>
    /\ UNCHANGED <<inited, overflowed, zeroOnly, phase, nAlloc, nDealloc, bAfter>>

\* position in the call sequence init(0, 0x2000), alloc(16, 8),
\* alloc_pages(1, 12), dealloc, alloc_pages(1, 12), alloc_pages(1, 12)
ScnNext(op, a1, a2) ==
    CASE scn = 1 /\ op = "alloc" /\ a1 = 16 /\ a2 = 8 -> 2
      [] scn = 2 /\ op = "alloc_pages" /\ a1 = 1 /\ a2 = 12 -> 3
      [] scn = 3 /\ op = "dealloc" -> 4
      [] scn = 4 /\ op = "alloc_pages" /\ a1 = 1 /\ a2 = 12 -> 5
      [] scn = 5 /\ op = "alloc_pages" /\ a1 = 1 /\ a2 = 12 -> 6
      [] OTHER -> 0

\* ---- ByteAllocator::alloc ----
\* NonNull::new_unchecked(aligned) with aligned = 0 is undefined behaviour:
\* the call returns Ok(null), or a build with debug assertions stops in the
\* precondition check of new_unchecked, after b_pos and count were written
alloc(size, align) ==
    /\ ~halted
    /\ ValidLayout(size, align)
    /\ nAlloc < MaxAllocs
    /\ scn' = ScnNext("alloc", size, align)
    /\ UNCHANGED <<start, end, p_pos, overflow_checks, inited, nDealloc>>
    /\ LET au == align_up(b_pos, align)
           aligned == au.val
           new_b_pos == checked_add(aligned, size)
       IN IF au.ovf /\ overflow_checks
          THEN /\ halted' = TRUE
               /\ lastOp' = Op("alloc", "Panic", 0)
               /\ overflowed' = TRUE
               /\ UNCHANGED <<b_pos, count, zeroOnly, phase, nAlloc, bAfter>>
          ELSE /\ overflowed' = (overflowed \/ au.ovf)
               /\ IF new_b_pos.none
                  THEN /\ lastOp' = Op("alloc", "InvalidParam", 0)
                       /\ halted' = FALSE
                       /\ UNCHANGED <<b_pos, count, zeroOnly, phase, nAlloc, bAfter>>
                  ELSE IF byte_collides(new_b_pos.val)
                  THEN /\ lastOp' = Op("alloc", "NoMemory", 0)
                       /\ halted' = FALSE
                       /\ b_pos' = refused_b_pos(aligned)
                       /\ UNCHANGED <<count, zeroOnly, phase, nAlloc, bAfter>>
                  ELSE /\ b_pos' = new_b_pos.val
                       /\ count' = count + 1
                       /\ \/ /\ lastOp' = Op("alloc", "Ok", aligned)
                             /\ halted' = FALSE
                             /\ zeroOnly' = (zeroOnly /\ size = 0)
                             /\ phase' = IF phase = "allocs" THEN "allocs"
                                         ELSE "broken"
                             /\ nAlloc' = nAlloc + 1
                             /\ bAfter' = IF phase = "allocs" THEN new_b_pos.val
                                          ELSE 0
                          \/ /\ aligned = 0 /\ overflow_checks
                             /\ lastOp' = Op("alloc", "Panic", 0)
                             /\ halted' = TRUE
                             /\ phase' = IF phase = "allocs" THEN "allocs"
                                         ELSE "broken"
                             /\ UNCHANGED <<zeroOnly, nAlloc, bAfter>>

\* ---- ByteAllocator::dealloc ----
dealloc(pos) ==
    /\ ~halted
    /\ scn' = ScnNext("dealloc", pos, 0)
    /\ UNCHANGED <<start, end, p_pos, overflow_checks, inited, overflowed,
                   nAlloc, bAfter>>
    /\ IF ~assert_count(count)
       THEN /\ halted' = TRUE
            /\ lastOp' = Op("dealloc", "Panic", 0)
            /\ UNCHANGED <<b_pos, count, zeroOnly, phase, nDealloc>>
       ELSE /\ halted' = FALSE
            /\ count' = WrapSub(count, 1)
            /\ b_pos' = dealloc_b_pos(WrapSub(count, 1))
            /\ lastOp' = Op("dealloc", "Unit", 0)
            /\ zeroOnly' = (zeroOnly \/ WrapSub(count, 1) = 0)
            /\ phase' = IF phase = "broken" THEN "broken" ELSE "deallocs"
            /\ nDealloc' = IF phase = "broken" THEN 0 ELSE nDealloc + 1

\* ---- PageAllocator::alloc_pages ----
alloc_pages(num_pages, align_pow2) ==
    /\ ~halted
    /\ scn' = ScnNext("alloc_pages", num_pages, align_pow2)
    /\ UNCHANGED <<start, end, b_pos, count, overflow_checks, inited,
                   zeroOnly, phase, nAlloc, nDealloc, bAfter>>
    /\ LET ovf == (num_pages * PAGE_SIZE > USIZE_MAX)
                      \/ (align_pow2 >= USIZE_BITS)
           size == WrapMul(num_pages, PAGE_SIZE)
           align == Shl1(align_pow2)
           sub == checked_sub(p_pos, size)
           new_p_pos == And(sub.val, Not(align - 1))
       IN IF ovf /\ overflow_checks
          THEN /\ halted' = TRUE
               /\ lastOp' = Op("alloc_pages", "Panic", 0)
               /\ overflowed' = TRUE
               /\ UNCHANGED p_pos
          ELSE /\ halted' = FALSE
               /\ overflowed' = (overflowed \/ ovf)
               /\ IF sub.none
                  THEN /\ lastOp' = Op("alloc_pages", "InvalidParam", 0)
                       /\ UNCHANGED p_pos
                  ELSE IF page_collides(new_p_pos)
                  THEN /\ lastOp' = Op("alloc_pages", "NoMemory", 0)
                       /\ UNCHANGED p_pos
                  ELSE /\ p_pos' = new_p_pos
                       /\ lastOp' = Op("alloc_pages", "Ok", new_p_pos)

\* ---- PageAllocator::dealloc_pages ----
dealloc_pages_giveback(pos, num_pages) ==
    /\ ~halted
    /\ p_pos' = IF p_pos + num_pages * PAGE_SIZE <= end
                THEN p_pos + num_pages * PAGE_SIZE ELSE p_pos
    /\ lastOp' = Op("dealloc_pages", "Unit", 0)
    /\ scn' = 0
    /\ UNCHANGED <<start, end, b_pos, count, overflow_checks, halted>>
    /\ UNCHANGED <<inited, overflowed, zeroOnly, phase, nAlloc, nDealloc, bAfter>>

dealloc_pages(pos, num_pages) ==
    /\ ~halted
    /\ lastOp' = Op("dealloc_pages", "Unit", 0)
    /\ scn' = 0
    /\ UNCHANGED <<fields, overflow_checks, halted>>
    /\ UNCHANGED <<inited, overflowed, zeroOnly, phase, nAlloc, nDealloc, bAfter>>

\* ---- total_bytes, used_bytes, available_bytes, total_pages, used_pages,
\* available_pages: &self, the arena is only read; the value returned is
\* the operator of that name, evaluated in the state of the call ----
query(q) ==
    /\ ~halted
    /\ scn' = 0
    /\ UNCHANGED <<fields, overflow_checks>>
    /\ UNCHANGED <<inited, overflowed, zeroOnly, phase, nAlloc, nDealloc, bAfter>>
    /\ IF QueryUnderflows(q) /\ overflow_checks
       THEN /\ halted' = TRUE
            /\ lastOp' = Op("query", "Panic", 0)
       ELSE /\ halted' = FALSE
            /\ lastOp' = Op("query", "Ok", 0)

Next ==
    \/ \E s \in StartSet, size \in InitSizeSet :
          init(s, size) /\ UNCHANGED handed
    \/ \E s \in StartSet : add_memory(s, PAGE_SIZE) /\ UNCHANGED handed
    \/ \E size \in AllocSizes, align \in AllocAligns :
          alloc(size, align) /\ UNCHANGED handed
    \/ \E pos \in DeallocPosSet : dealloc(pos) /\ UNCHANGED handed
    \/ \E n \in NumPagesSet, a \in AlignPow2Set :
          alloc_pages(n, a) /\ UNCHANGED handed
    \/ \E pos \in DeallocPosSet, n \in NumPagesSet :
          dealloc_pages(pos, n) /\ UNCHANGED handed
    \/ \E q \in QueryNames : query(q) /\ UNCHANGED handed

Spec == Init /\ [][Next]_vars

\* ---- the same calls, with the memory handed out recorded ----

\* alloc returned Ok(addr): [addr, addr + size) now belongs to the caller
RecordAlloc(size) ==
    /\ live' = IF lastOp'.res = "Ok"
               THEN live \cup {[id |-> nAlloc', addr |-> lastOp'.val,
                                size |-> size]}
               ELSE live
    /\ runs' = runs

\* alloc_pages returned Ok(p): [p, p + num_pages * PAGE_SIZE) now belongs
\* to the caller
RecordRun(num_pages) ==
    /\ runs' = IF lastOp'.res = "Ok"
               THEN runs \cup {[id |-> Cardinality(runs) + 1,
                                addr |-> lastOp'.val, pages |-> num_pages]}
               ELSE runs
    /\ live' = live

\* init starts a new arena: what the previous one handed out is forgotten
RecordInit ==
    IF lastOp'.res = "Unit" THEN live' = {} /\ runs' = {}
                            ELSE UNCHANGED handed

\* the caller passes to dealloc the address of an allocation it still
\* holds, each one once; with none left, any address
NextLive ==
    \/ \E s \in StartSet, size \in InitSizeSet : init(s, size) /\ RecordInit
    \/ \E s \in StartSet : add_memory(s, PAGE_SIZE) /\ UNCHANGED handed
    \/ \E size \in AllocSizes, align \in AllocAligns :
          alloc(size, align) /\ RecordAlloc(size)
    \/ \E a \in live :
          dealloc(a.addr) /\ live' = live \ {a} /\ runs' = runs
    \/ \E pos \in DeallocPosSet :
          live = {} /\ dealloc(pos) /\ UNCHANGED handed
    \/ \E n \in NumPagesSet, a \in AlignPow2Set :
          /\ Cardinality(runs) < MaxRuns
          /\ alloc_pages(n, a) /\ RecordRun(n)
    \/ \E pos \in DeallocPosSet, n \in NumPagesSet :
          dealloc_pages(pos, n) /\ UNCHANGED handed
    \/ \E q \in QueryNames : query(q) /\ UNCHANGED handed

SpecLive == Init /\ [][NextLive]_vars

TypeOK ==
    /\ start \in 0..USIZE_MAX /\ end \in 0..USIZE_MAX
    /\ b_pos \in 0..USIZE_MAX /\ p_pos \in 0..USIZE_MAX
    /\ count \in 0..MaxAllocs
    /\ lastOp.val \in 0..USIZE_MAX

\* ---- properties ----

\* an init call that panicked on `start + size` has written start only
InitPanicked == lastOp.op = "init" /\ lastOp.res = "Panic"

\* the smallest multiple of align that is >= addr, over the integers
AlignUpMath(addr, align) == ((addr + align - 1) \div align) * align

\* x rounded down to a multiple of 2^k, over the integers
RoundDownMath(x, k) == x - (x % Pow2(k))

\* C1: after init and any calls in which no arithmetic overflowed,
\* start <= b_pos <= p_pos <= end, after successful and failed calls alike
C1_CursorOrder ==
    (inited /\ ~overflowed) =>
        (start <= b_pos /\ b_pos <= p_pos /\ p_pos <= end)

C1_Witness ==
    /\ inited /\ ~overflowed
    /\ lastOp.op = "alloc" /\ lastOp.res = "NoMemory"
    /\ start < b_pos /\ p_pos < end

\* C2: in every state reached after init by alloc, dealloc, alloc_pages and
\* dealloc_pages calls, count = 0 implies b_pos = start
C2_EmptyWhenNoAllocs ==
    (inited /\ ~InitPanicked) => (count = 0 => b_pos = start)

C2_Witness ==
    /\ inited /\ count = 0 /\ lastOp.op = "dealloc" /\ lastOp.res = "Unit"
    /\ bAfter > start /\ nDealloc > 1

\* C3 as stated: after init, b_pos = start if and only if count = 0, also
\* after successful alloc calls of size 0
C3_EmptyIffNoAllocs ==
    (inited /\ ~InitPanicked) => (b_pos = start <=> count = 0)

\* C3 amended: without arithmetic overflow, count = 0 implies b_pos = start,
\* and b_pos = start implies count = 0 unless every alloc that succeeded
\* since the byte region was last empty had size 0
C3_EmptyIffNoBytes ==
    (inited /\ ~overflowed) =>
        /\ count = 0 => b_pos = start
        /\ b_pos = start => (count = 0 \/ zeroOnly)

C3_Witness ==
    /\ inited /\ ~overflowed
    /\ count > 0 /\ ~zeroOnly /\ lastOp.op = "dealloc" /\ b_pos > start

\* C4: from a fresh init, after n successful alloc calls followed by n
\* dealloc calls (alloc_pages / dealloc_pages interleaved at will),
\* b_pos = start and count = 0; before the n-th dealloc b_pos still has the
\* value the allocations left
C4_BulkReclaim ==
    (inited /\ phase = "deallocs") =>
        /\ nDealloc = nAlloc => (b_pos = start /\ count = 0)
        /\ nDealloc < nAlloc => b_pos = bAfter

C4_Witness ==
    /\ inited /\ phase = "deallocs"
    /\ nAlloc > 1 /\ nDealloc = nAlloc
    /\ bAfter > start /\ p_pos < end

\* C5: a successful alloc(size, align) returns the smallest multiple of
\* align that is >= the b_pos before the call, sets b_pos to that address
\* plus size and adds exactly 1 to count
C5_AllocResult ==
    [][\A size \in AllocSizes, align \in AllocAligns :
          (inited /\ lastOp'.op = "alloc" /\ lastOp'.res = "Ok"
                  /\ alloc(size, align)) =>
              /\ lastOp'.val % align = 0
              /\ lastOp'.val >= b_pos
              /\ lastOp'.val = AlignUpMath(b_pos, align)
              /\ b_pos' = lastOp'.val + size
              /\ count' = count + 1]_vars

\* the arithmetic of alloc(size, align) stays within usize
NoAddressOverflow(size, align) ==
    /\ b_pos + align <= USIZE_MAX
    /\ AlignUpMath(b_pos, align) + size <= USIZE_MAX

\* C6: a request without address overflow fails with NoMemory if and only
\* if align_up(b_pos, align) + size > p_pos, and otherwise succeeds; an
\* aligned end equal to p_pos succeeds
C6_NoMemoryExactly ==
    [][\A size \in AllocSizes, align \in AllocAligns :
          (lastOp'.op = "alloc" /\ alloc(size, align)
                                /\ NoAddressOverflow(size, align)) =>
              /\ lastOp'.res = "NoMemory"
                     <=> AlignUpMath(b_pos, align) + size > p_pos
              /\ AlignUpMath(b_pos, align) + size = p_pos
                     => (b_pos' = p_pos /\ count' = count + 1)]_vars

C6_Witness ==
    /\ inited /\ ~overflowed
    /\ lastOp.op = "alloc" /\ lastOp.res = "Ok"
    /\ b_pos = p_pos /\ b_pos > start

\* C7: when p_pos - num_pages * PAGE_SIZE does not underflow,
\* alloc_pages(num_pages, align_pow2) fails with NoMemory if and only if
\* that difference rounded down to a multiple of 2^align_pow2 is < b_pos;
\* otherwise it succeeds, the rounded position becomes p_pos and is returned
C7_PagesNoMemoryExactly ==
    [][\A n \in NumPagesSet, a \in AlignPow2Set :
          (inited /\ lastOp'.op = "alloc_pages" /\ alloc_pages(n, a)
                  /\ n * PAGE_SIZE <= p_pos) =>
              LET r == RoundDownMath(p_pos - n * PAGE_SIZE, a)
              IN /\ lastOp'.res = "NoMemory" <=> r < b_pos
                 /\ r >= b_pos => /\ lastOp'.res = "Ok"
                                  /\ lastOp'.val = r
                                  /\ p_pos' = r]_vars

\* the results and the final state of the call sequence init(0, 0x2000),
\* alloc(16, 8), alloc_pages(1, 12), dealloc, alloc_pages(1, 12),
\* alloc_pages(1, 12)
ScenarioResults ==
    /\ scn = 2 => (lastOp.res = "Ok" /\ lastOp.val = 0)
    /\ scn = 3 => (lastOp.res = "Ok" /\ lastOp.val = 4096)
    /\ scn = 5 => (lastOp.res = "Ok" /\ lastOp.val = 0)
    /\ scn = 6 => (lastOp.res = "InvalidParam" /\ b_pos = 0 /\ p_pos = 0)

\* C8: alloc_pages fails with InvalidParam whenever
\* num_pages * PAGE_SIZE > p_pos, and the call sequence on [0, 0x2000)
\* returns 0, 0x1000, -, 0, InvalidParam and ends with b_pos = p_pos = 0
C8_UnderflowInvalidParam ==
    /\ [][\A n \in NumPagesSet, a \in AlignPow2Set :
            (inited /\ lastOp'.op = "alloc_pages" /\ alloc_pages(n, a)
                    /\ n * PAGE_SIZE > p_pos) =>
                lastOp'.res = "InvalidParam"]_vars
    /\ []ScenarioResults

\* C9: no call other than init ever increases p_pos
C9_PagePosMonotone ==
    [][lastOp'.op # "init" => p_pos' <= p_pos]_vars

C9_Witness ==
    /\ inited /\ lastOp.op = "dealloc_pages"
    /\ p_pos < end /\ nAlloc > 0

\* C10: dealloc_pages, whatever its arguments, leaves every field of the
\* arena and the values of used_pages() and available_pages() unchanged
C10_DeallocPagesNoop ==
    [][\A pos \in DeallocPosSet, n \in NumPagesSet :
          (lastOp'.op = "dealloc_pages" /\ dealloc_pages(pos, n)) =>
              /\ UNCHANGED <<start, end, b_pos, p_pos, count>>
              /\ used_pages' = used_pages
              /\ available_pages' = available_pages]_vars

C10_Witness ==
    /\ inited /\ lastOp.op = "dealloc_pages"
    /\ used_pages > 0 /\ available_pages > 0 /\ count > 0

\* C11: a dealloc call made with count = 0 stops the program in the
\* assertion without writing count or b_pos, in either build profile; count
\* is decremented only when it is > 0 and never wraps below zero
C11_DeallocAssert ==
    /\ [][lastOp'.op = "dealloc" =>
            /\ count = 0 => /\ halted' /\ lastOp'.res = "Panic"
                            /\ count' = count /\ b_pos' = b_pos
            /\ count' # count => (count > 0 /\ count' = count - 1)]_vars
    /\ [](count >= 0 /\ count <= MaxAllocs)

C11_Witness ==
    /\ inited /\ halted /\ lastOp.op = "dealloc" /\ lastOp.res = "Panic"
    /\ count = 0 /\ nDealloc > 0

\* C12: a dealloc call made with count > 1 subtracts exactly 1 from count
\* and leaves b_pos, p_pos, start and end as they were; a dealloc changes
\* b_pos only when it takes count from 1 to 0
C12_DeallocFrame ==
    [][lastOp'.op = "dealloc" =>
          /\ count > 1 => /\ count' = count - 1
                          /\ UNCHANGED <<b_pos, p_pos, start, end>>
          /\ b_pos' # b_pos => (count = 1 /\ count' = 0)]_vars

C12_Witness ==
    /\ inited /\ lastOp.op = "dealloc" /\ lastOp.res = "Unit"
    /\ count > 0 /\ b_pos > start /\ b_pos = bAfter /\ nDealloc > 0

\* C13: an alloc or alloc_pages request whose arithmetic is not
\* representable in usize (the round-up b_pos + align - 1, the addition
\* aligned + size, the product num_pages * PAGE_SIZE, the subtraction
\* p_pos - size) returns InvalidParam and leaves the fields unchanged
C13_UnrepresentableInvalidParam ==
    [][/\ \A size \in AllocSizes, align \in AllocAligns :
            (lastOp'.op = "alloc" /\ inited /\ alloc(size, align)
               /\ (\/ b_pos + align - 1 > USIZE_MAX
                   \/ AlignUpMath(b_pos, align) + size > USIZE_MAX)) =>
                (lastOp'.res = "InvalidParam" /\ UNCHANGED fields)
       /\ \A n \in NumPagesSet, a \in AlignPow2Set :
            (lastOp'.op = "alloc_pages" /\ inited /\ alloc_pages(n, a)
               /\ (\/ n * PAGE_SIZE > USIZE_MAX
                   \/ p_pos - n * PAGE_SIZE < 0)) =>
                (lastOp'.res = "InvalidParam" /\ UNCHANGED fields)]_vars

\* C14 (as stated): init(s, size) in any state gives end = s + size,
\* b_pos = s, p_pos = end, count = 0
C14_InitExact ==
    [][\A s \in StartSet, size \in InitSizeSet :
          (lastOp'.op = "init" /\ init(s, size)) =>
              /\ start' = s /\ end' = s + size /\ b_pos' = s
              /\ p_pos' = end' /\ count' = 0]_vars

\* C14 (amended): init(s, size) with s + size representable in usize, in
\* any state, gives end = s + size, b_pos = s, p_pos = end, count = 0; the
\* same call repeated right away leaves every field as it is
C14_InitExactInRange ==
    [][\A s \in StartSet, size \in InitSizeSet :
          (lastOp'.op = "init" /\ init(s, size) /\ s + size <= USIZE_MAX) =>
              /\ lastOp'.res = "Unit"
              /\ start' = s /\ end' = s + size /\ b_pos' = s
              /\ p_pos' = end' /\ count' = 0
              /\ (lastOp.op = "init" /\ start = s /\ end = s + size)
                     => UNCHANGED fields]_vars

C14_Witness ==
    /\ lastOp.op = "init" /\ lastOp.res = "Unit" /\ inited /\ ~overflowed
    /\ start = 57344 /\ end = 63488 /\ b_pos = start /\ p_pos = end
    /\ count = 0

\* C15: used_pages() is (end - p_pos) / PAGE_SIZE in every reachable state,
\* alloc and dealloc leave it unchanged, and every successful
\* alloc_pages(n, a) increases it by at least n on that step
C15_UsedPages ==
    /\ [](inited => (p_pos <= end
                     /\ used_pages = (end - p_pos) \div PAGE_SIZE))
    /\ [][/\ (lastOp'.op \in {"alloc", "dealloc"} /\ inited) =>
               (end' - p_pos') \div PAGE_SIZE = (end - p_pos) \div PAGE_SIZE
          /\ \A n \in NumPagesSet, a \in AlignPow2Set :
               (lastOp'.op = "alloc_pages" /\ inited /\ alloc_pages(n, a)
                  /\ lastOp'.res = "Ok") =>
                   (end' - p_pos') \div PAGE_SIZE
                       >= (end - p_pos) \div PAGE_SIZE + n]_vars

\* C16: whenever end - start is an exact multiple of PAGE_SIZE,
\* total_bytes() = total_pages() * PAGE_SIZE; no call other than init
\* changes either value
C16_TotalsAgree ==
    /\ []((end - start) % PAGE_SIZE = 0
              => total_bytes = total_pages * PAGE_SIZE)
    /\ [][lastOp'.op # "init" =>
              (total_bytes' = total_bytes /\ total_pages' = total_pages)]_vars

C16_Witness ==
    /\ inited /\ (end - start) % PAGE_SIZE = 0 /\ end > start
    /\ total_pages = 2 /\ total_bytes = 2 * PAGE_SIZE
    /\ p_pos < end /\ count > 0 /\ lastOp.op = "alloc"

\* C18: an alloc or alloc_pages call that returns NoMemory or InvalidParam
\* leaves start, end, b_pos, p_pos and count unchanged, so the next request
\* meets the state the failed one met
C18_ErrorLeavesFields ==
    [][(/\ lastOp'.op \in {"alloc", "alloc_pages"}
        /\ lastOp'.res \in {"NoMemory", "InvalidParam"}) =>
           UNCHANGED fields]_vars

C18_Witness ==
    /\ inited /\ lastOp.op = "alloc" /\ lastOp.res = "NoMemory"
    /\ count > 0 /\ b_pos > start /\ b_pos < p_pos /\ b_pos % 8192 # 0

\* C19: in every reachable state used_bytes() + available_bytes() +
\* (end - p_pos) = total_bytes(), available_bytes() is p_pos - b_pos
\* without saturating, and available_pages() = available_bytes() / PAGE_SIZE
C19_RegionsAccount ==
    /\ used_bytes + available_bytes + (end - p_pos) = total_bytes
    /\ available_bytes = p_pos - b_pos
    /\ available_pages = available_bytes \div PAGE_SIZE

\* the address ranges [lo1, hi1) and [lo2, hi2) share no byte
Disjoint(lo1, hi1, lo2, hi2) ==
    lo1 >= hi1 \/ lo2 >= hi2 \/ hi1 <= lo2 \/ hi2 <= lo1

\* the address range [lo, hi) lies inside the arena
InArena(lo, hi) == start <= lo /\ lo <= hi /\ hi <= end

\* C17: after init, with every dealloc releasing a distinct allocation that
\* is still live, live byte allocations are disjoint from each other and
\* from every page run returned since init, page runs are pairwise
\* disjoint, and all of them lie inside [start, end)
C17_NoOverlap ==
    inited =>
        /\ \A x \in live, y \in live :
               x.id # y.id => Disjoint(x.addr, x.addr + x.size,
                                       y.addr, y.addr + y.size)
        /\ \A x \in live, r \in runs :
               Disjoint(x.addr, x.addr + x.size,
                        r.addr, r.addr + r.pages * PAGE_SIZE)
        /\ \A r \in runs, q \in runs :
               r.id # q.id => Disjoint(r.addr, r.addr + r.pages * PAGE_SIZE,
                                       q.addr, q.addr + q.pages * PAGE_SIZE)
        /\ \A x \in live : InArena(x.addr, x.addr + x.size)
        /\ \A r \in runs : InArena(r.addr, r.addr + r.pages * PAGE_SIZE)

====
